---- MODULE Spec2Model ----
(***************************************************************************)
(* Model of the assistant run orchestration of miscio-backend:             *)
(*   OpenAIService.process_message   (app/services/openai_service.py)      *)
(*   handle_tool_calls               (app/api/v1/endpoints/chat.py)        *)
(*   CampaignService.create_campaign / query_student_chats                 *)
(*                                   (app/services/campaign_service.py)    *)
(* Every await of the code is a suspension point, hence one action.        *)
(* The assistant platform, the messaging provider and the document store   *)
(* are the environment.                                                    *)
(***************************************************************************)
EXTENDS Integers, Sequences, FiniteSets, TLC

\* ---------------------------------------------------------------- bounds
MaxTasks == 2      \* invocations of process_message / handle_tool_calls
MaxCalls == 1      \* tool invocations one remote run asks for, over its pauses
MaxDirect == 2     \* tool invocations of a batch handed to handle_tool_calls
MaxParts == 2      \* content parts of one assistant message
MaxLimit == 2      \* limit argument of a direct query_student_chats call
LeanParts == 1     \* the same, for concurrent invocations
NumStudents == 2   \* documents of the students collection

Tasks == 1..MaxTasks
Students == 1..NumStudents

\* ------------------------------------------------------------ vocabulary
NonTerminal == {"queued", "in_progress", "requires_action"}
AbnormalEnd == {"failed", "cancelled", "expired"}
\* Statuses of the platform that process_message has no branch for.
OtherStatuses == {"cancelling", "incomplete"}
Statuses == NonTerminal \cup AbnormalEnd \cup {"completed"} \cup OtherStatuses

FunctionNames == {"run_campaign", "query_student_chats", "get_weather"}
\* The argument payload of a tool invocation is a JSON text.
Payloads == {"{not json", "{}", "{\"campaign_description\": \"D\", \"query\": \"D\"}"}

ToolCall(i, n, a) == [id |-> i, name |-> n, arguments |-> a]

\* Batches of k invocations, ids first..first+k-1.
RECURSIVE BatchesFrom(_, _)
BatchesFrom(first, k) ==
    IF k = 0 THEN {<<>>}
    ELSE {<<ToolCall(first, n, a)>> \o rest :
            n \in FunctionNames, a \in Payloads, rest \in BatchesFrom(first + 1, k - 1)}

BatchesUpTo(m) == UNION {BatchesFrom(1, k) : k \in 1..m}

\* Content parts of a remote message: a text part carries text.value, any
\* other part (an image) has no "text" key.
\* The texts of the model are tuples; "" is <<>> and None is <<"None">>.
EmptyStr == <<>>
NoneValue == <<"None">>
TextPart(v) == [type |-> "text", value |-> v]
ImagePart == [type |-> "image_file", value |-> NoneValue]
ReplyText(r) == <<"reply", r>>
UserText(t) == <<"user", t>>
PartsOf(r) == {ImagePart, TextPart(EmptyStr), TextPart(ReplyText(r))}

RECURSIVE ContentsOfLen(_, _)
ContentsOfLen(r, k) ==
    IF k = 0 THEN {<<>>}
    ELSE {<<p>> \o rest : p \in PartsOf(r), rest \in ContentsOfLen(r, k - 1)}

Contents(r, m) == UNION {ContentsOfLen(r, k) : k \in 0..m}

\* Document ids: the store's ObjectId, and its str() form.
ObjectId(n) == <<"ObjectId", n>>
Str(oid) == <<"str", oid[2]>>

VARIABLES
    pc,            \* position of each task
    entry,         \* what the task was started as: "cm", "pm" or "htc"
    hasHandler,    \* run_handler is not None
    result,        \* how process_message ended
    observed,      \* status_response["status"] of the last poll
    prior,         \* the tasks that had ended when this one started
    handlerCalls,  \* calls of run_handler made by the invocation
    submits,       \* submit_tool_outputs requests sent by the invocation
    runStatus,     \* remote: status of the run each task created ("none": no run)
    runCalls,      \* remote: pending tool invocations of the run
    pauses,        \* remote: times the run entered requires_action
    issued,        \* remote: tool invocations the run has asked for so far
    threadMsgs,    \* remote: messages of the thread, oldest first
    cleared,       \* remote: the thread's messages were deleted once
    lag,           \* remote: a run whose status does not yet show its submission
    tool_calls,    \* handle_tool_calls: the batch
    idx,           \* handle_tool_calls: index of the current invocation
    tool_outputs,  \* handle_tool_calls: outputs so far
    dispatched,    \* handle_tool_calls: ids whose loop body was entered, in order
    escaped,       \* handle_tool_calls: an exception left the function
    serviceRaised, \* handle_tool_calls: ids during which a service call raised
    fetched,       \* process_message: the thread as it was at the final fetch
    requests,      \* process_message: requests made (messages, runs, polls, cancels)
    campaigns,     \* committed campaigns collection: id -> document
    interactions,  \* committed interactions collection
    nextId,        \* next ObjectId the driver generates
    txn,           \* the open transaction of each create_campaign call
    cc,            \* locals and outcome of each task's latest create_campaign call
    sent,          \* messaging provider: accepted sends <<campaign, student>>
    chat_histories, \* committed chat_histories documents of the thread, oldest first
    threads,       \* committed threads document of the thread
    cm,            \* create_message: position and transaction of each request
    search         \* a direct call of query_student_chats and what it returned

pmVars == <<hasHandler, result, observed, prior, handlerCalls, submits, fetched, requests>>
remoteVars == <<runStatus, runCalls, pauses, issued, threadMsgs, cleared, lag>>
htcVars == <<tool_calls, idx, tool_outputs, dispatched, escaped, serviceRaised>>
dbVars == <<campaigns, interactions, nextId, txn, cc, sent>>
cmVars == <<chat_histories, threads, cm>>
vars == <<pc, entry, pmVars, remoteVars, htcVars, dbVars, cmVars, search>>

NoResult == [kind |-> "none", error |-> "none", status |-> "none", value |-> NoneValue]
NoTxn == [open |-> FALSE, aborted |-> FALSE, deact |-> {}, camp |-> 0, inter |-> {}]
NoCall == [state |-> "none", desc |-> "none", camp |-> 0, sidx |-> 0,
           attempted |-> <<>>, failed |-> {}, activeAtReturn |-> {}, cause |-> "none",
           deact |-> {}, recorded |-> {}]

\* No chat_histories document matches the thread before the first upsert.
NoHistory == <<>>
\* A request's transaction: the messages it pushes, the document they go to
\* (0: the upsert inserts one), whether its threads update matched, and the
\* state of the threads document in its snapshot.
NoRequest == [state |-> "none", pushed |-> <<>>, target |-> 0, matched |-> FALSE,
              seen |-> {}]
\* The threads document create_thread inserts (last_message ""), or its
\* absence: the thread create_admin_assistant makes at login has none.
ThreadDoc(exists) == [exists |-> exists, last_message |-> EmptyStr, setBy |-> {}]

NoSearch == [state |-> "none", query |-> "none", limit |-> 0, results |-> <<>>,
             cause |-> "none"]
\* The requests process_message has made: it makes no request that lists or
\* cancels runs, so cancels stays empty.
NoCalls == [messages |-> 0, runs |-> 0, polled |-> FALSE, cancels |-> {}]

InitCommon ==
    /\ search = NoSearch
    /\ requests = [t \in Tasks |-> NoCalls]
    /\ chat_histories = NoHistory
    /\ cm = [t \in Tasks |-> NoRequest]
    /\ hasHandler = [t \in Tasks |-> FALSE]
    /\ result = [t \in Tasks |-> NoResult]
    /\ observed = [t \in Tasks |-> "none"]
    /\ prior = [t \in Tasks |-> {}]
    /\ handlerCalls = [t \in Tasks |-> 0]
    /\ submits = [t \in Tasks |-> <<>>]
    /\ runStatus = [t \in Tasks |-> "none"]
    /\ runCalls = [t \in Tasks |-> <<>>]
    /\ pauses = [t \in Tasks |-> 0]
    /\ issued = [t \in Tasks |-> 0]
    /\ threadMsgs = <<>>
    /\ cleared = FALSE
    /\ lag = [t \in Tasks |-> "none"]
    /\ idx = [t \in Tasks |-> 1]
    /\ tool_outputs = [t \in Tasks |-> <<>>]
    /\ dispatched = [t \in Tasks |-> <<>>]
    /\ escaped = [t \in Tasks |-> FALSE]
    /\ serviceRaised = [t \in Tasks |-> {}]
    /\ fetched = [t \in Tasks |-> [done |-> FALSE, msgs |-> <<>>]]
    /\ txn = [t \in Tasks |-> NoTxn]
    /\ cc = [t \in Tasks |-> NoCall]

\* The database before any campaign was run.
EmptyStore ==
    /\ campaigns = <<>>
    /\ interactions = {}
    /\ nextId = 1
    /\ sent = {}

\* The service after start-up: no invocation is running.
Init ==
    /\ InitCommon
    /\ EmptyStore
    /\ threads = ThreadDoc(TRUE)
    /\ pc = [t \in Tasks |-> "idle"]
    /\ entry = [t \in Tasks |-> "pm"]
    /\ tool_calls = [t \in Tasks |-> <<>>]

\* ------------------------------------------------------- process_message

Raise(t, err, status) ==
    /\ result' = [result EXCEPT ![t] =
                    [kind |-> "error", error |-> err, status |-> status, value |-> NoneValue]]
    /\ pc' = [pc EXCEPT ![t] = "done"]

\* A request is made: process_message is called on the thread.
PMStart(t) ==
    /\ pc[t] = "idle"
    /\ entry[t] \in {"pm", "cm"}
    /\ \E h \in (IF entry[t] = "cm" THEN {TRUE} ELSE BOOLEAN) :
         hasHandler' = [hasHandler EXCEPT ![t] = h]
    /\ prior' = [prior EXCEPT ![t] = {u \in Tasks : pc[u] = "done"}]
    /\ pc' = [pc EXCEPT ![t] = "pm_msg"]
    /\ UNCHANGED <<cmVars, search, entry, result, observed, handlerCalls, submits, fetched,
                   requests, remoteVars, htcVars, dbVars>>

UserMessage(t) ==
    [role |-> "user", content |-> <<TextPart(UserText(t))>>, run |-> 0]

\* POST /threads/{thread_id}/messages
PMCreateMessage(t) ==
    /\ pc[t] = "pm_msg"
    /\ threadMsgs' = Append(threadMsgs, UserMessage(t))
    /\ requests' = [requests EXCEPT ![t].messages = @ + 1]
    /\ pc' = [pc EXCEPT ![t] = "pm_run"]
    /\ UNCHANGED <<cmVars, search, entry, hasHandler, result, observed, prior, handlerCalls,
                   submits, fetched, runStatus, runCalls, pauses, issued, cleared, lag, htcVars, dbVars>>

\* POST /threads/{thread_id}/runs: the run of task t gets id t.
PMCreateRun(t) ==
    /\ pc[t] = "pm_run"
    /\ runStatus' = [runStatus EXCEPT ![t] = "queued"]
    /\ requests' = [requests EXCEPT ![t].runs = @ + 1]
    /\ pc' = [pc EXCEPT ![t] = "pm_poll"]
    /\ UNCHANGED <<cmVars, search, entry, hasHandler, result, observed, prior, handlerCalls,
                   submits, fetched, runCalls, pauses, issued, threadMsgs, cleared, lag, htcVars, dbVars>>

\* Where an iteration that leaves by asyncio.sleep(1) goes on: the head of
\* the while loop, which is after the message and the run were created.
LoopHeadBeforeRun == "pm_run"

LoopHead == "pm_poll"

\* The branch the polling loop takes on a status.
PollBranchForgetsExpired(status, handler) ==
    IF status = "requires_action"
    THEN (IF handler THEN "dispatch" ELSE "unsupported")
    ELSE IF status = "completed" THEN "fetch"
    ELSE IF status \in {"failed", "cancelled"} THEN "abnormal"
    ELSE "sleep"

PollBranchFetchesEarly(status, handler) ==
    IF status = "requires_action"
    THEN (IF handler THEN "dispatch" ELSE "unsupported")
    ELSE IF status \in {"completed", "in_progress"} THEN "fetch"
    ELSE IF status \in {"failed", "cancelled", "expired"} THEN "abnormal"
    ELSE "sleep"

PollBranchForgetsCancelled(status, handler) ==
    IF status = "requires_action"
    THEN (IF handler THEN "dispatch" ELSE "unsupported")
    ELSE IF status = "completed" THEN "fetch"
    ELSE IF status \in {"failed", "expired"} THEN "abnormal"
    ELSE "sleep"

PollBranchKeepsPolling(status, handler) ==
    IF status = "requires_action"
    THEN (IF handler THEN "dispatch" ELSE "sleep")
    ELSE IF status = "completed" THEN "fetch"
    ELSE IF status \in {"failed", "cancelled", "expired"} THEN "abnormal"
    ELSE "sleep"

PollBranch(status, handler) ==
    IF status = "requires_action"
    THEN (IF handler THEN "dispatch" ELSE "unsupported")
    ELSE IF status = "completed" THEN "fetch"
    ELSE IF status \in {"failed", "cancelled", "expired"} THEN "abnormal"
    ELSE "sleep"

\* f"Run failed with status: {status_response['status']}"
RunFailedDetail(status) == status

\* GET /threads/{thread_id}/runs/{run_id}, then the branch, then (on no
\* branch that leaves the loop) asyncio.sleep(1).
PMPoll(t) ==
    /\ pc[t] = "pm_poll"
    /\ observed' = [observed EXCEPT ![t] = runStatus[t]]
    /\ requests' = [requests EXCEPT ![t].polled = TRUE]
    /\ LET b == PollBranch(runStatus[t], hasHandler[t]) IN
       CASE b = "dispatch" ->
              /\ tool_calls' = [tool_calls EXCEPT ![t] = runCalls[t]]
              /\ idx' = [idx EXCEPT ![t] = 1]
              /\ tool_outputs' = [tool_outputs EXCEPT ![t] = <<>>]
              /\ handlerCalls' = [handlerCalls EXCEPT ![t] = @ + 1]
              /\ pc' = [pc EXCEPT ![t] = "htc_loop"]
              /\ UNCHANGED <<result, dispatched, escaped, serviceRaised>>
         [] b = "unsupported" ->
              /\ Raise(t, "Function execution not supported", "none")
              /\ UNCHANGED <<handlerCalls, htcVars>>
         [] b = "fetch" ->
              /\ pc' = [pc EXCEPT ![t] = "pm_fetch"]
              /\ UNCHANGED <<result, handlerCalls, htcVars>>
         [] b = "abnormal" ->
              /\ Raise(t, "Run failed with status", RunFailedDetail(runStatus[t]))
              /\ UNCHANGED <<handlerCalls, htcVars>>
         [] OTHER ->
              /\ pc' = [pc EXCEPT ![t] = LoopHead]
              /\ UNCHANGED <<result, handlerCalls, htcVars>>
    /\ UNCHANGED <<cmVars, search, entry, hasHandler, prior, submits, fetched, remoteVars, dbVars>>

OutputIds(outs) == {outs[i].tool_call_id : i \in 1..Len(outs)}
CallIds(calls) == {calls[i].id : i \in 1..Len(calls)}

\* The platform takes a submission for a run that is paused, when it holds
\* an output for every pending invocation; any other one is a request error.
RemoteAccepts(r, outs) ==
    /\ runStatus[r] = "requires_action"
    /\ CallIds(runCalls[r]) \subseteq OutputIds(outs)

\* POST /threads/{thread_id}/runs/{run_id}/submit_tool_outputs, then sleep.
\* The status of a run whose submission was accepted becomes queued, at once
\* or, on a platform that may show it late, (once per run) after a later poll.
PMSubmit(t, mayLag) ==
    /\ pc[t] = "pm_submit"
    /\ submits' = [submits EXCEPT ![t] =
                     Append(@, [run |-> t, outputs |-> tool_outputs[t],
                                pending |-> runCalls[t]])]
    /\ IF RemoteAccepts(t, tool_outputs[t])
       THEN /\ \E late \in (IF mayLag /\ lag[t] = "none" THEN BOOLEAN ELSE {FALSE}) :
                 IF late
                 THEN /\ lag' = [lag EXCEPT ![t] = "pending"]
                      /\ UNCHANGED <<runStatus, runCalls>>
                 ELSE /\ runStatus' = [runStatus EXCEPT ![t] = "queued"]
                      /\ runCalls' = [runCalls EXCEPT ![t] = <<>>]
                      /\ lag' = [lag EXCEPT ![t] = IF @ = "pending" THEN "shown" ELSE @]
            /\ pc' = [pc EXCEPT ![t] = LoopHead]
            /\ UNCHANGED result
       ELSE /\ Raise(t, "request failed", "none")
            /\ UNCHANGED <<runStatus, runCalls, lag>>
    /\ UNCHANGED <<cmVars, search, entry, hasHandler, observed, prior, handlerCalls, fetched,
                   requests, pauses, issued, threadMsgs, cleared, htcVars, dbVars>>

\* GET /threads/{thread_id}/messages with limit and order=desc.
RECURSIVE LatestFirst(_, _)
LatestFirst(msgs, limit) ==
    IF limit = 0 \/ msgs = <<>> THEN <<>>
    ELSE <<msgs[Len(msgs)]>> \o LatestFirst(SubSeq(msgs, 1, Len(msgs) - 1), limit - 1)

\* not v, for a text or None
Falsy(v) == v = EmptyStr \/ v = NoneValue

\* part.get("text", {}).get("value")
TextValue(part) == IF part.type = "text" THEN part.value ELSE NoneValue

ExtractReplyLastPart(data) ==
    IF data = <<>>
    THEN [ok |-> FALSE, error |-> "Invalid message response", value |-> NoneValue]
    ELSE LET message_content == data[1].content IN
         IF message_content = <<>>
               \/ Falsy(TextValue(message_content[Len(message_content)]))
         THEN [ok |-> FALSE, error |-> "Invalid message content", value |-> NoneValue]
         ELSE [ok |-> TRUE, error |-> "none",
               value |-> TextValue(message_content[Len(message_content)])]

\* The validation of the messages response and the value returned.
ExtractReply(data) ==
    IF data = <<>>
    THEN [ok |-> FALSE, error |-> "Invalid message response", value |-> NoneValue]
    ELSE LET message_content == data[1].content IN
         IF message_content = <<>> \/ Falsy(TextValue(message_content[1]))
         THEN [ok |-> FALSE, error |-> "Invalid message content", value |-> NoneValue]
         ELSE [ok |-> TRUE, error |-> "none", value |-> TextValue(message_content[1])]

PMFetch(t) ==
    /\ pc[t] = "pm_fetch"
    /\ LET r == ExtractReply(LatestFirst(threadMsgs, 1)) IN
       IF r.ok
       THEN /\ result' = [result EXCEPT ![t] =
                            [kind |-> "ok", error |-> "none", status |-> "none",
                             value |-> r.value]]
            /\ pc' = [pc EXCEPT ![t] = "done"]
       ELSE Raise(t, r.error, "none")
    /\ fetched' = [fetched EXCEPT ![t] = [done |-> TRUE, msgs |-> threadMsgs]]
    /\ UNCHANGED <<cmVars, search, entry, hasHandler, observed, prior, handlerCalls, submits,
                   requests, remoteVars, htcVars, dbVars>>

RequestSites == {"pm_msg", "pm_run", "pm_poll", "pm_submit", "pm_fetch"}

\* make_request raises (transport error, error status): the except clause
\* logs and re-raises.
PMRequestError(t) ==
    /\ pc[t] \in RequestSites
    /\ Raise(t, "request failed", "none")
    /\ UNCHANGED <<cmVars, search, entry, hasHandler, observed, prior, handlerCalls, submits,
                   fetched, requests, remoteVars, htcVars, dbVars>>

\* ------------------------------------------------- the assistant platform

AssistantMessage(r, c) == [role |-> "assistant", content |-> c, run |-> r]

\* The platform moves a run on.
RemoteQueuedToInProgress(r) ==
    /\ runStatus[r] = "queued"
    /\ runStatus' = [runStatus EXCEPT ![r] = "in_progress"]
    /\ UNCHANGED <<cmVars, search, pc, entry, pmVars, runCalls, pauses, issued, threadMsgs, cleared,
                   lag, htcVars, dbVars>>

RemotePause(r, maxCalls) ==
    /\ runStatus[r] = "in_progress"
    /\ \E k \in 1..(maxCalls - issued[r]) :
         /\ \E b \in BatchesFrom(issued[r] + 1, k) :
              runCalls' = [runCalls EXCEPT ![r] = b]
         /\ issued' = [issued EXCEPT ![r] = @ + k]
    /\ pauses' = [pauses EXCEPT ![r] = @ + 1]
    /\ runStatus' = [runStatus EXCEPT ![r] = "requires_action"]
    /\ UNCHANGED <<cmVars, search, pc, entry, pmVars, threadMsgs, cleared, lag, htcVars, dbVars>>

RemoteComplete(r, maxParts) ==
    /\ runStatus[r] = "in_progress"
    /\ \E c \in Contents(r, maxParts) :
         threadMsgs' = Append(threadMsgs, AssistantMessage(r, c))
    /\ runStatus' = [runStatus EXCEPT ![r] = "completed"]
    /\ UNCHANGED <<cmVars, search, pc, entry, pmVars, runCalls, pauses, issued, cleared, lag,
                   htcVars, dbVars>>

RemoteEndAbnormally(r) ==
    /\ runStatus[r] \in NonTerminal \cup {"cancelling"}
    /\ \E s \in AbnormalEnd :
         /\ (s = "failed" => runStatus[r] = "in_progress")
         /\ runStatus' = [runStatus EXCEPT ![r] = s]
    /\ UNCHANGED <<cmVars, search, pc, entry, pmVars, runCalls, pauses, issued, threadMsgs, cleared,
                   lag, htcVars, dbVars>>

\* The run takes a status outside the vocabulary of process_message: another
\* client cancels it (cancelling), or it ends incomplete.
RemoteLeaveVocabulary(r) ==
    /\ runStatus[r] \in NonTerminal
    /\ \E s \in OtherStatuses :
         /\ (s = "incomplete" => runStatus[r] = "in_progress")
         /\ runStatus' = [runStatus EXCEPT ![r] = s]
    /\ UNCHANGED <<cmVars, search, pc, entry, pmVars, runCalls, pauses, issued, threadMsgs, cleared,
                   lag, htcVars, dbVars>>

\* Another client of the platform deletes the thread's messages.
RemoteDeleteMessages ==
    /\ ~cleared
    /\ threadMsgs # <<>>
    /\ threadMsgs' = <<>>
    /\ cleared' = TRUE
    /\ UNCHANGED <<cmVars, search, pc, entry, pmVars, runStatus, runCalls, pauses, issued, lag,
                   htcVars, dbVars>>

\* The status of a run whose outputs were accepted comes to show it.
RemoteTakeOutputs(r) ==
    /\ lag[r] = "pending"
    /\ runStatus[r] = "requires_action"
    /\ runStatus' = [runStatus EXCEPT ![r] = "queued"]
    /\ runCalls' = [runCalls EXCEPT ![r] = <<>>]
    /\ lag' = [lag EXCEPT ![r] = "shown"]
    /\ UNCHANGED <<cmVars, search, pc, entry, pmVars, pauses, issued, threadMsgs, cleared,
                   htcVars, dbVars>>

\* ----------------------------------------------------- handle_tool_calls

\* json.loads of an argument payload: ok is FALSE when it raises.
json_loads(text) ==
    IF text = "{}" THEN [ok |-> TRUE, obj |-> <<>>]
    ELSE IF text = "{\"campaign_description\": \"D\", \"query\": \"D\"}"
    THEN [ok |-> TRUE, obj |-> [campaign_description |-> "D", query |-> "D"]]
    ELSE [ok |-> FALSE, obj |-> <<>>]

\* What the body of the try block does with one invocation, up to the call
\* of the campaign service.
Dispatch(tool_call) ==
    LET arguments == json_loads(tool_call.arguments) IN
    IF ~arguments.ok THEN [act |-> "raise", exc |-> "JSONDecodeError", arg |-> "none"]
    ELSE IF tool_call.name = "run_campaign"
    THEN (IF "campaign_description" \in DOMAIN arguments.obj
          THEN [act |-> "create_campaign", exc |-> "none",
                arg |-> arguments.obj["campaign_description"]]
          ELSE [act |-> "raise", exc |-> "KeyError", arg |-> "none"])
    ELSE IF tool_call.name = "query_student_chats"
    THEN (IF "query" \in DOMAIN arguments.obj
          THEN [act |-> "query_student_chats", exc |-> "none",
                arg |-> arguments.obj["query"]]
          ELSE [act |-> "raise", exc |-> "KeyError", arg |-> "none"])
    ELSE [act |-> "none", exc |-> "none", arg |-> "none"]

CaughtOnlyHTTPException(exc) == exc = "HTTPException"

\* except Exception: every exception the body raises is an Exception.
Caught(exc) == exc \in {"JSONDecodeError", "KeyError", "TypeError", "HTTPException"}

Output(id, kind, text) == [tool_call_id |-> id, output |-> [kind |-> kind, text |-> text]]

CurrentCall(t) == tool_calls[t][idx[t]]

HandleExceptionSilently(t, exc) ==
    /\ idx' = [idx EXCEPT ![t] = @ + 1]
    /\ pc' = [pc EXCEPT ![t] = "htc_loop"]
    /\ UNCHANGED <<tool_outputs, escaped>>

\* The except clause of the loop body for the current invocation.
HandleException(t, exc) ==
    IF Caught(exc)
    THEN /\ tool_outputs' = [tool_outputs EXCEPT ![t] =
                               Append(@, Output(CurrentCall(t).id, "error", exc))]
         /\ idx' = [idx EXCEPT ![t] = @ + 1]
         /\ pc' = [pc EXCEPT ![t] = "htc_loop"]
         /\ UNCHANGED escaped
    ELSE /\ escaped' = [escaped EXCEPT ![t] = TRUE]
         /\ pc' = [pc EXCEPT ![t] = "done"]
         /\ UNCHANGED <<tool_outputs, idx>>

\* One iteration of the for loop, up to its first await.
HTCIterate(t) ==
    /\ pc[t] = "htc_loop"
    /\ idx[t] <= Len(tool_calls[t])
    /\ dispatched' = [dispatched EXCEPT ![t] = Append(@, CurrentCall(t).id)]
    /\ LET d == Dispatch(CurrentCall(t)) IN
       CASE d.act = "raise" ->
              /\ HandleException(t, d.exc)
              /\ UNCHANGED cc
         [] d.act = "create_campaign" ->
              /\ cc' = [cc EXCEPT ![t] = [state |-> "running", desc |-> d.arg, camp |-> 0,
                                          sidx |-> 0, attempted |-> <<>>, failed |-> {},
                                          activeAtReturn |-> {}, cause |-> "none",
                                          deact |-> {}, recorded |-> {}]]
              /\ pc' = [pc EXCEPT ![t] = "cc_update"]
              /\ UNCHANGED <<tool_outputs, idx, escaped>>
         [] d.act = "query_student_chats" ->
              /\ pc' = [pc EXCEPT ![t] = "q_search"]
              /\ UNCHANGED <<tool_outputs, idx, escaped, cc>>
         [] OTHER ->
              /\ idx' = [idx EXCEPT ![t] = @ + 1]
              /\ pc' = [pc EXCEPT ![t] = "htc_loop"]
              /\ UNCHANGED <<tool_outputs, escaped, cc>>
    /\ UNCHANGED <<cmVars, search, entry, pmVars, remoteVars, tool_calls, serviceRaised, campaigns,
                   interactions, nextId, txn, sent>>

\* return tool_outputs
HTCReturn(t) ==
    /\ pc[t] = "htc_loop"
    /\ idx[t] > Len(tool_calls[t])
    /\ pc' = [pc EXCEPT ![t] = IF entry[t] = "htc" THEN "done" ELSE "pm_submit"]
    /\ UNCHANGED <<cmVars, search, entry, pmVars, remoteVars, htcVars, dbVars>>

\* ------------------------------------------- CampaignService.create_campaign

ActiveIds(coll) == {c \in DOMAIN coll : coll[c].status = "active"}

\* A write of a document another open transaction has written conflicts.
WriteConflict(t, docs) ==
    \E u \in Tasks \ {t} : txn[u].open /\ txn[u].deact \cap docs # {}

\* The transaction is aborted and the except clause raises HTTPException,
\* which the loop body of handle_tool_calls receives.
CCRaise(t, cause) ==
    /\ txn' = [txn EXCEPT ![t] = NoTxn]
    /\ cc' = [cc EXCEPT ![t].state = "raised", ![t].cause = cause]
    /\ serviceRaised' = [serviceRaised EXCEPT ![t] = @ \cup {CurrentCall(t).id}]
    /\ HandleException(t, "HTTPException")

\* update_many({"status": "active"}, {"$set": {"status": "inactive"}})
CCDeactivate(t) ==
    /\ pc[t] = "cc_update"
    /\ IF WriteConflict(t, ActiveIds(campaigns))
       THEN CCRaise(t, "WriteConflict")
       ELSE /\ txn' = [txn EXCEPT ![t] = [open |-> TRUE, aborted |-> FALSE,
                                          deact |-> ActiveIds(campaigns),
                                          camp |-> 0, inter |-> {}]]
            /\ cc' = [cc EXCEPT ![t].deact = ActiveIds(campaigns)]
            /\ pc' = [pc EXCEPT ![t] = "cc_insert"]
            /\ UNCHANGED <<tool_outputs, idx, escaped, serviceRaised>>
    /\ UNCHANGED <<cmVars, search, entry, pmVars, remoteVars, tool_calls, dispatched, campaigns,
                   interactions, nextId, sent>>

\* insert_one(campaign_data): the driver generates the _id.
CCInsert(t) ==
    /\ pc[t] = "cc_insert"
    /\ txn' = [txn EXCEPT ![t].camp = nextId]
    /\ cc' = [cc EXCEPT ![t].camp = nextId]
    /\ nextId' = nextId + 1
    /\ pc' = [pc EXCEPT ![t] = "cc_find"]
    /\ UNCHANGED <<cmVars, search, entry, pmVars, remoteVars, htcVars, campaigns, interactions, sent>>

\* students.find({}).to_list(length=None)
CCFind(t) ==
    /\ pc[t] = "cc_find"
    /\ cc' = [cc EXCEPT ![t].sidx = 1]
    /\ pc' = [pc EXCEPT ![t] = "cc_loop"]
    /\ UNCHANGED <<cmVars, search, entry, pmVars, remoteVars, htcVars, campaigns, interactions,
                   nextId, txn, sent>>

\* What the loop over the students does after a send that raised.
AfterSendFailureStop(sidx) == NumStudents + 1

AfterSendFailureRetry(sidx) == sidx

AfterSendFailure(sidx) == sidx + 1

\* The interaction the loop records for a student.
Interaction(campaign, student, desc) ==
    [campaign_id |-> Str(ObjectId(campaign)), student_id |-> Str(ObjectId(student)),
     message |-> <<"Hi", student, desc>>, type |-> "initial", status |-> "sent"]

\* The operations of create_campaign that are given session=session take
\* effect at the commit of the transaction; any other one writes at once.
InSessionNotInteractions(op) == op \in {"campaigns.update_many", "campaigns.insert_one"}

InSession(op) ==
    op \in {"campaigns.update_many", "campaigns.insert_one", "interactions.insert_one"}

\* One iteration: send_message, then interactions.insert_one in the
\* transaction; when either raises, the except clause logs and continues.
\* An insert the store answers with an error aborts the transaction, and
\* every later operation of the aborted transaction raises as well; such
\* errors happen where insertFaults says the store may fail an insert.
CCStudent(t, insertFaults) ==
    /\ pc[t] = "cc_loop"
    /\ cc[t].sidx <= NumStudents
    /\ LET s == cc[t].sidx IN
       \E outcome \in {"recorded", "insert raised", "send raised"} :
         /\ (outcome = "recorded") => ~txn[t].aborted
         /\ (outcome = "insert raised") => insertFaults
         /\ CASE outcome = "recorded" ->
                   /\ sent' = sent \cup {<<txn[t].camp, s>>}
                   /\ IF InSession("interactions.insert_one")
                      THEN /\ txn' = [txn EXCEPT ![t].inter = @ \cup {s}]
                           /\ UNCHANGED interactions
                      ELSE /\ interactions' = interactions \cup
                                                 {Interaction(txn[t].camp, s, cc[t].desc)}
                           /\ UNCHANGED txn
                   /\ cc' = [cc EXCEPT ![t].sidx = s + 1,
                                       ![t].attempted = Append(@, s),
                                       ![t].recorded = @ \cup {s}]
              [] outcome = "insert raised" ->
                   /\ sent' = sent \cup {<<txn[t].camp, s>>}
                   /\ txn' = [txn EXCEPT ![t].aborted = TRUE]
                   /\ cc' = [cc EXCEPT ![t].sidx = s + 1,
                                       ![t].attempted = Append(@, s)]
                   /\ UNCHANGED interactions
              [] OTHER ->
                   /\ cc' = [cc EXCEPT ![t].sidx = AfterSendFailure(s),
                                       ![t].attempted = Append(@, s),
                                       ![t].failed = @ \cup {s}]
                   /\ UNCHANGED <<sent, txn, interactions>>
    /\ UNCHANGED <<cmVars, search, pc, entry, pmVars, remoteVars, htcVars, campaigns, nextId>>

CampaignDoc(desc, status) == [description |-> desc, admin_id |-> "admin", status |-> status]

\* The collection after the transaction's writes are applied.
Committed(coll, deact, camp, desc) ==
    [c \in DOMAIN coll \cup {camp} |->
        IF c = camp THEN CampaignDoc(desc, "active")
        ELSE IF c \in deact THEN [coll[c] EXCEPT !.status = "inactive"]
        ELSE coll[c]]

\* return campaign_data: the transaction commits on leaving the with block,
\* and handle_tool_calls appends the success output. The commit of an
\* aborted transaction raises.
CCCommit(t) ==
    /\ pc[t] = "cc_loop"
    /\ cc[t].sidx > NumStudents
    /\ IF txn[t].aborted
       THEN /\ CCRaise(t, "aborted")
            /\ UNCHANGED <<campaigns, interactions>>
       ELSE /\ campaigns' = Committed(campaigns, txn[t].deact, txn[t].camp, cc[t].desc)
            /\ interactions' = interactions \cup
                                 {Interaction(txn[t].camp, s, cc[t].desc) : s \in txn[t].inter}
            /\ txn' = [txn EXCEPT ![t] = NoTxn]
            /\ cc' = [cc EXCEPT ![t].state = "returned",
                                ![t].activeAtReturn = ActiveIds(campaigns')]
            /\ tool_outputs' = [tool_outputs EXCEPT ![t] =
                                  Append(@, Output(CurrentCall(t).id, "success",
                                                   <<"Campaign started successfully with description: ",
                                                     cc[t].desc>>))]
            /\ idx' = [idx EXCEPT ![t] = @ + 1]
            /\ pc' = [pc EXCEPT ![t] = "htc_loop"]
            /\ UNCHANGED <<escaped, serviceRaised>>
    /\ UNCHANGED <<cmVars, search, entry, pmVars, remoteVars, tool_calls, dispatched, nextId, sent>>

CampaignSites == {"cc_update", "cc_insert", "cc_find", "cc_loop"}

\* A store operation of the transaction (or its commit) fails.
CCStoreError(t) ==
    /\ pc[t] \in CampaignSites
    /\ pc[t] = "cc_loop" => cc[t].sidx > NumStudents
    /\ CCRaise(t, "store")
    /\ UNCHANGED <<cmVars, search, entry, pmVars, remoteVars, tool_calls, dispatched, campaigns,
                   interactions, nextId, sent>>

\* --------------------------------------- CampaignService.query_student_chats

QueryLimit == 100

\* The relevance of a message for a query word: the number of times the
\* word occurs in the text after the greeting and the name.
Score(message, query) == Cardinality({k \in 3..Len(message) : message[k] = query})

\* {"$text": {"$search": query}}: the interactions whose message holds the word.
SearchHits(query) == {i \in interactions : Score(i.message, query) > 0}

\* .sort([("score", {"$meta": "textScore"})]): the hits in descending order of
\* score; the order among hits of one score is the store's choice.
RECURSIVE Rankings(_, _)
Rankings(hits, query) ==
    IF hits = {} THEN {<<>>}
    ELSE UNION {{<<h>> \o rest : rest \in Rankings(hits \ {h}, query)} :
                  h \in {x \in hits : \A y \in hits :
                            Score(x.message, query) >= Score(y.message, query)}}

\* .limit(limit): the first limit documents; a limit of 0 is no limit.
LimitOffByOne(ranking, limit) ==
    IF limit = 0 \/ Len(ranking) <= limit + 1 THEN ranking ELSE SubSeq(ranking, 1, limit + 1)

Limit(ranking, limit) ==
    IF limit = 0 \/ Len(ranking) <= limit THEN ranking ELSE SubSeq(ranking, 1, limit)

\* students.find_one({"_id": id}) and campaigns.find_one({"_id": id}): the
\* documents' _id is an ObjectId.
FindStudent(id) == {s \in Students : ObjectId(s) = id}
FindCampaign(id) == {c \in DOMAIN campaigns : ObjectId(c) = id}

\* The result appended for one hit; interaction["timestamp"] is the datetime
\* the writer of the interaction stored.
ChatResult(hit) ==
    [student_name |-> <<"name", CHOOSE s \in FindStudent(hit.student_id) : TRUE>>,
     campaign_description |->
        IF FindCampaign(hit.campaign_id) = {} THEN "Unknown Campaign"
        ELSE campaigns[CHOOSE c \in FindCampaign(hit.campaign_id) : TRUE].description,
     message |-> hit.message,
     timestamp |-> <<"datetime">>,
     type |-> hit.type]

\* The outcome of the loop over the cursor: student['first_name'] raises
\* TypeError when find_one returned None, and the except clause raises
\* HTTPException.
query_student_chats(ranking, limit) ==
    LET hits == Limit(ranking, limit) IN
    IF \E k \in 1..Len(hits) : FindStudent(hits[k].student_id) = {}
    THEN [ok |-> FALSE, exc |-> "HTTPException", results |-> <<>>]
    ELSE [ok |-> TRUE, exc |-> "none",
          results |-> [k \in 1..Len(hits) |-> ChatResult(hits[k])]]

\* json.dumps({"results": chat_results}) raises TypeError for a value json
\* cannot serialise: a datetime.
JsonSerialisable(results) ==
    \A k \in 1..Len(results) : results[k].timestamp # <<"datetime">>

\* The search and the rest of the loop body for a query_student_chats invocation.
HTCQuery(t) ==
    /\ pc[t] = "q_search"
    /\ \E available \in BOOLEAN :
       \E ranking \in Rankings(SearchHits(Dispatch(CurrentCall(t)).arg),
                               Dispatch(CurrentCall(t)).arg) :
         LET r == query_student_chats(ranking, QueryLimit) IN
         IF ~available \/ ~r.ok
         THEN /\ serviceRaised' = [serviceRaised EXCEPT ![t] = @ \cup {CurrentCall(t).id}]
              /\ HandleException(t, "HTTPException")
         ELSE IF ~JsonSerialisable(r.results)
         THEN /\ HandleException(t, "TypeError")
              /\ UNCHANGED serviceRaised
         ELSE /\ tool_outputs' = [tool_outputs EXCEPT ![t] =
                                    Append(@, Output(CurrentCall(t).id, "results", "[]"))]
              /\ idx' = [idx EXCEPT ![t] = @ + 1]
              /\ pc' = [pc EXCEPT ![t] = "htc_loop"]
              /\ UNCHANGED <<escaped, serviceRaised>>
    /\ UNCHANGED <<cmVars, search, entry, pmVars, remoteVars, tool_calls, dispatched, dbVars>>

\* A direct call query_student_chats(query, limit): it returns the results,
\* or its except clause raises HTTPException, because the index or the search
\* failed or because the loop body raised.
QueryDirect ==
    /\ search.state = "called"
    /\ \E available \in BOOLEAN :
       \E ranking \in Rankings(SearchHits(search.query), search.query) :
         LET r == query_student_chats(ranking, search.limit) IN
         search' = IF ~available
                   THEN [search EXCEPT !.state = "raised", !.cause = "OperationFailure"]
                   ELSE IF ~r.ok
                   THEN [search EXCEPT !.state = "raised", !.cause = "TypeError"]
                   ELSE [search EXCEPT !.state = "returned", !.results = r.results]
    /\ UNCHANGED <<pc, entry, pmVars, remoteVars, htcVars, dbVars, cmVars>>

\* ---------------------------------------------------------- create_message

ExchangeOfUserOnly(t) == <<[role |-> "user", content |-> UserText(t)]>>

\* messages: the user's content and the reply of process_message.
ExchangeOf(t) ==
    <<[role |-> "user", content |-> UserText(t)],
      [role |-> "assistant", content |-> result[t].value]>>

\* The document update_one matches, the first of the thread, was written by
\* another open transaction. (An upsert that matches nothing inserts a
\* document of its own and conflicts with no one: the collection has no
\* unique index.)
HistoryConflict(t) ==
    /\ chat_histories # <<>>
    /\ \E u \in Tasks \ {t} : cm[u].state \in {"pushed", "set"} /\ cm[u].target = 1

\* The threads document was written by another open transaction, or by one
\* that committed after this transaction's snapshot was taken.
ThreadConflict(t) ==
    /\ threads.exists
    /\ \/ threads.setBy # cm[t].seen
       \/ \E u \in Tasks \ {t} : cm[u].state = "set" /\ cm[u].matched

\* A store operation of the transaction fails: it is aborted and the except
\* clause raises HTTPException.
CMRaise(t) == cm' = [cm EXCEPT ![t] = [NoRequest EXCEPT !.state = "failed"]]

CMPushAfterFailure(t) ==
    /\ entry[t] = "cm"
    /\ pc[t] = "done"
    /\ cm[t].state = "none"
    /\ cm' = [cm EXCEPT ![t] = [state |-> "pushed", pushed |-> ExchangeOf(t),
                                target |-> IF chat_histories = <<>> THEN 0 ELSE 1,
                                matched |-> FALSE, seen |-> threads.setBy]]
    /\ UNCHANGED <<pc, entry, pmVars, remoteVars, htcVars, dbVars, chat_histories, threads,
                   search>>

\* chat_histories.update_one($push messages, upsert=True, session=session),
\* reached when process_message has returned.
CMPush(t) ==
    /\ entry[t] = "cm"
    /\ pc[t] = "done"
    /\ result[t].kind = "ok"
    /\ cm[t].state = "none"
    /\ IF HistoryConflict(t)
       THEN CMRaise(t)
       ELSE cm' = [cm EXCEPT ![t] = [state |-> "pushed", pushed |-> ExchangeOf(t),
                                     target |-> IF chat_histories = <<>> THEN 0 ELSE 1,
                                     matched |-> FALSE, seen |-> threads.setBy]]
    /\ UNCHANGED <<pc, entry, pmVars, remoteVars, htcVars, dbVars, chat_histories, threads,
                   search>>

\* threads.update_one({"id": thread_id}, $set last_message, last_activity,
\* session=session): without upsert, it writes only a document that matches.
CMSetThread(t) ==
    /\ cm[t].state = "pushed"
    /\ IF ThreadConflict(t)
       THEN CMRaise(t)
       ELSE cm' = [cm EXCEPT ![t].state = "set", ![t].matched = threads.exists]
    /\ UNCHANGED <<pc, entry, pmVars, remoteVars, htcVars, dbVars, chat_histories, threads,
                   search>>

\* Leaving the with blocks commits the transaction; return {"messages": messages}.
CMCommit(t) ==
    /\ cm[t].state = "set"
    /\ chat_histories' = IF cm[t].target = 0
                          THEN Append(chat_histories, [messages |-> cm[t].pushed])
                          ELSE [chat_histories EXCEPT ![1].messages = @ \o cm[t].pushed]
    /\ threads' = IF cm[t].matched
                  THEN [threads EXCEPT !.last_message = UserText(t),
                                       !.setBy = @ \cup {t}]
                  ELSE threads
    /\ cm' = [cm EXCEPT ![t].state = "committed"]
    /\ UNCHANGED <<pc, entry, pmVars, remoteVars, htcVars, dbVars, search>>

\* start_session, an update or the commit raises.
CMStoreError(t) ==
    /\ \/ cm[t].state \in {"pushed", "set"}
       \/ cm[t].state = "none" /\ entry[t] = "cm" /\ pc[t] = "done" /\ result[t].kind = "ok"
    /\ CMRaise(t)
    /\ UNCHANGED <<pc, entry, pmVars, remoteVars, htcVars, dbVars, chat_histories, threads,
                   search>>

\* ------------------------------------------------------- specifications

\* process_message apart from its requires_action branch.
TaskStep(t) ==
    \/ PMStart(t)
    \/ PMCreateMessage(t)
    \/ PMCreateRun(t)
    \/ PMPoll(t)
    \/ PMFetch(t)
    \/ PMRequestError(t)

\* handle_tool_calls and the services it calls.
ToolStep(t, insertFaults) ==
    \/ HTCIterate(t)
    \/ HTCReturn(t)
    \/ HTCQuery(t)
    \/ CCDeactivate(t)
    \/ CCInsert(t)
    \/ CCFind(t)
    \/ CCStudent(t, insertFaults)
    \/ CCCommit(t)
    \/ CCStoreError(t)

\* Requests to process_message on one thread, served concurrently, whose
\* runs the platform ends without pausing them for tool calls.
Next ==
    \E t \in Tasks :
        \/ TaskStep(t)
        \/ RemoteQueuedToInProgress(t)
        \/ RemoteComplete(t, LeanParts)
        \/ RemoteEndAbnormally(t)

Spec == Init /\ [][Next]_vars

\* One request to process_message, against the whole environment.
Requester == CHOOSE t \in Tasks : \A u \in Tasks : t <= u

InitOne ==
    /\ InitCommon
    /\ EmptyStore
    /\ threads = ThreadDoc(TRUE)
    /\ pc = [t \in Tasks |-> IF t = Requester THEN "idle" ELSE "done"]
    /\ entry = [t \in Tasks |-> "pm"]
    /\ tool_calls = [t \in Tasks |-> <<>>]

NextOne ==
    \/ \E t \in Tasks :
        \/ TaskStep(t)
        \/ PMSubmit(t, FALSE)
        \/ ToolStep(t, FALSE)
        \/ RemoteQueuedToInProgress(t)
        \/ RemotePause(t, MaxCalls)
        \/ RemoteComplete(t, MaxParts)
        \/ RemoteEndAbnormally(t)
    \/ RemoteDeleteMessages

SpecOne == InitOne /\ [][NextOne]_vars

\* The same request, against a platform whose run status may show an
\* accepted submission late and whose messages stay.
NextLate ==
    \E t \in Tasks :
        \/ TaskStep(t)
        \/ PMSubmit(t, TRUE)
        \/ ToolStep(t, FALSE)
        \/ RemoteQueuedToInProgress(t)
        \/ RemotePause(t, MaxCalls)
        \/ RemoteTakeOutputs(t)
        \/ RemoteComplete(t, LeanParts)
        \/ RemoteEndAbnormally(t)

SpecLate == InitOne /\ [][NextLate]_vars

\* The same request, scheduled fairly: a coroutine whose awaited request or
\* store operation has completed is resumed, so each step of the invocation
\* that is not a failure of the environment is eventually taken. The platform
\* is not assumed to move a run on.
Continue(t) ==
    \/ PMCreateMessage(t)
    \/ PMCreateRun(t)
    \/ PMPoll(t)
    \/ PMSubmit(t, FALSE)
    \/ PMFetch(t)
    \/ HTCIterate(t)
    \/ HTCReturn(t)
    \/ HTCQuery(t)
    \/ CCDeactivate(t)
    \/ CCInsert(t)
    \/ CCFind(t)
    \/ CCStudent(t, FALSE)
    \/ CCCommit(t)

NextLive ==
    \E t \in Tasks :
        \/ TaskStep(t)
        \/ PMSubmit(t, FALSE)
        \/ ToolStep(t, FALSE)
        \/ RemoteQueuedToInProgress(t)
        \/ RemotePause(t, MaxCalls)
        \/ RemoteComplete(t, LeanParts)
        \/ RemoteEndAbnormally(t)
        \/ RemoteLeaveVocabulary(t)

SpecLive == InitOne /\ [][NextLive]_vars /\ WF_vars(Continue(Requester))

\* handle_tool_calls applied to one batch by task 1.
InitTools ==
    /\ InitCommon
    /\ EmptyStore
    /\ threads = ThreadDoc(TRUE)
    /\ pc = [t \in Tasks |-> IF t = 1 THEN "htc_loop" ELSE "done"]
    /\ entry = [t \in Tasks |-> "htc"]
    /\ \E b \in BatchesUpTo(MaxDirect) :
         tool_calls = [t \in Tasks |-> IF t = 1 THEN b ELSE <<>>]

NextTools == \E t \in Tasks : ToolStep(t, TRUE)

SpecTools == InitTools /\ [][NextTools]_vars

\* handle_tool_calls applied by every task, concurrently, to a batch of
\* its own.
\* The database after one earlier create_campaign returned with every send
\* accepted: its campaign is active and each student has an interaction.
EarlierCampaign ==
    /\ campaigns = <<CampaignDoc("D", "active")>>
    /\ interactions = {Interaction(1, s, "D") : s \in Students}
    /\ nextId = 2
    /\ sent = {<<1, s>> : s \in Students}

InitCampaigns ==
    /\ InitCommon
    /\ EmptyStore \/ EarlierCampaign
    /\ threads = ThreadDoc(TRUE)
    /\ pc = [t \in Tasks |-> "htc_loop"]
    /\ entry = [t \in Tasks |-> "htc"]
    /\ tool_calls \in [Tasks -> BatchesUpTo(MaxCalls)]

SpecCampaigns == InitCampaigns /\ [][NextTools]_vars

\* The rest of create_message, after process_message has returned.
StoreStep(t) ==
    \/ CMPush(t)
    \/ CMSetThread(t)
    \/ CMCommit(t)
    \/ CMStoreError(t)

\* Requests to create_message on one thread, served concurrently, whose runs
\* the platform ends without pausing them for tool calls.
InitChat ==
    /\ InitCommon
    /\ EmptyStore
    /\ threads \in {ThreadDoc(TRUE), ThreadDoc(FALSE)}
    /\ pc = [t \in Tasks |-> "idle"]
    /\ entry = [t \in Tasks |-> "cm"]
    /\ tool_calls = [t \in Tasks |-> <<>>]

NextChat ==
    \E t \in Tasks :
        \/ TaskStep(t)
        \/ StoreStep(t)
        \/ RemoteQueuedToInProgress(t)
        \/ RemoteComplete(t, LeanParts)
        \/ RemoteEndAbnormally(t)

SpecChat == InitChat /\ [][NextChat]_vars

\* The thread after the runs of requests 1..n have ended, one after the other:
\* each request's user message, and the reply of its run when it completed.
RECURSIVE ThreadAfter(_, _)
ThreadAfter(n, outcome) ==
    IF n = 0 THEN <<>>
    ELSE ThreadAfter(n - 1, outcome) \o <<UserMessage(n)>> \o
         (IF outcome[n] = "completed"
          THEN <<AssistantMessage(n, <<TextPart(ReplyText(n))>>)>>
          ELSE <<>>)

\* Requests to create_message on one thread: the calls of process_message
\* of requests 1..n have ended, each after the one before it, with the run
\* completed or ended abnormally, and their store transactions are still to
\* run; the later requests have not started.
ServedUpTo(n, outcome) ==
    /\ pc = [t \in Tasks |-> IF t <= n THEN "done" ELSE "idle"]
    /\ entry = [t \in Tasks |-> "cm"]
    /\ hasHandler = [t \in Tasks |-> t <= n]
    /\ result = [t \in Tasks |->
                   IF t > n THEN NoResult
                   ELSE IF outcome[t] = "completed"
                   THEN [kind |-> "ok", error |-> "none", status |-> "none",
                         value |-> ReplyText(t)]
                   ELSE [kind |-> "error", error |-> "Run failed with status",
                         status |-> RunFailedDetail(outcome[t]), value |-> NoneValue]]
    /\ observed = [t \in Tasks |-> IF t <= n THEN outcome[t] ELSE "none"]
    /\ prior = [t \in Tasks |-> IF t <= n THEN 1..(t - 1) ELSE {}]
    /\ handlerCalls = [t \in Tasks |-> 0]
    /\ submits = [t \in Tasks |-> <<>>]
    /\ fetched = [t \in Tasks |->
                    IF t <= n /\ outcome[t] = "completed"
                    THEN [done |-> TRUE, msgs |-> ThreadAfter(t, outcome)]
                    ELSE [done |-> FALSE, msgs |-> <<>>]]
    /\ requests = [t \in Tasks |->
                     IF t <= n
                     THEN [messages |-> 1, runs |-> 1, polled |-> TRUE, cancels |-> {}]
                     ELSE NoCalls]
    /\ runStatus = [t \in Tasks |-> IF t <= n THEN outcome[t] ELSE "none"]
    /\ runCalls = [t \in Tasks |-> <<>>]
    /\ pauses = [t \in Tasks |-> 0]
    /\ issued = [t \in Tasks |-> 0]
    /\ threadMsgs = ThreadAfter(n, outcome)
    /\ cleared = FALSE
    /\ lag = [t \in Tasks |-> "none"]
    /\ tool_calls = [t \in Tasks |-> <<>>]
    /\ idx = [t \in Tasks |-> 1]
    /\ tool_outputs = [t \in Tasks |-> <<>>]
    /\ dispatched = [t \in Tasks |-> <<>>]
    /\ escaped = [t \in Tasks |-> FALSE]
    /\ serviceRaised = [t \in Tasks |-> {}]
    /\ txn = [t \in Tasks |-> NoTxn]
    /\ cc = [t \in Tasks |-> NoCall]
    /\ EmptyStore
    /\ chat_histories = NoHistory
    /\ threads \in {ThreadDoc(TRUE), ThreadDoc(FALSE)}
    /\ cm = [t \in Tasks |-> NoRequest]
    /\ search = NoSearch

\* Every request's process_message has ended; the store transactions of the
\* requests run concurrently.
InitStore == \E outcome \in [Tasks -> AbnormalEnd \cup {"completed"}] :
                ServedUpTo(MaxTasks, outcome)

NextStore == \E t \in Tasks : StoreStep(t)

SpecStore == InitStore /\ [][NextStore]_vars

\* The last request arrives when process_message has returned a reply to
\* every request before it: its call of process_message runs while their
\* store transactions run.
InitLast == ServedUpTo(MaxTasks - 1, [t \in Tasks |-> "completed"])

SpecLast == InitLast /\ [][NextChat]_vars

\* Interactions the collection can hold: those create_campaign records (ids
\* in str form) and those other writers record with the student's own _id.
RecordedInteractions ==
    {[campaign_id |-> Str(ObjectId(1)), student_id |-> sid, message |-> m,
      type |-> IF sid = ObjectId(1) THEN "response" ELSE "initial", status |-> "sent"] :
        sid \in {ObjectId(1), Str(ObjectId(1))},
        m \in {<<"Hi", 1, "D">>, <<"Hi", 1, "D", "D">>, <<"Hi", 1, "D", "E">>}}

\* query_student_chats(query, limit) called on a collection of interactions.
InitSearch ==
    /\ InitCommon
    /\ threads = ThreadDoc(TRUE)
    /\ campaigns = <<CampaignDoc("D", "inactive")>>
    /\ interactions \in SUBSET RecordedInteractions
    /\ nextId = 2
    /\ sent = {}
    /\ pc = [t \in Tasks |-> "done"]
    /\ entry = [t \in Tasks |-> "htc"]
    /\ tool_calls = [t \in Tasks |-> <<>>]

SearchCall ==
    /\ search.state = "none"
    /\ \E q \in {"D", "E"}, l \in 0..MaxLimit :
         search' = [state |-> "called", query |-> q, limit |-> l, results |-> <<>>,
                    cause |-> "none"]
    /\ UNCHANGED <<pc, entry, pmVars, remoteVars, htcVars, dbVars, cmVars>>

NextSearch == SearchCall \/ QueryDirect

SpecSearch == InitSearch /\ [][NextSearch]_vars

\* handle_tool_calls applied to one batch by task 1, on a database that holds
\* an earlier campaign and the answers recorded for it under the student's
\* own _id.
InitAnswers ==
    /\ InitCommon
    /\ threads = ThreadDoc(TRUE)
    /\ campaigns = <<CampaignDoc("D", "inactive")>>
    /\ interactions \in SUBSET {r \in RecordedInteractions : r.type = "response"}
    /\ nextId = 2
    /\ sent = {}
    /\ pc = [t \in Tasks |-> IF t = 1 THEN "htc_loop" ELSE "done"]
    /\ entry = [t \in Tasks |-> "htc"]
    /\ \E b \in BatchesUpTo(MaxDirect) :
         tool_calls = [t \in Tasks |-> IF t = 1 THEN b ELSE <<>>]

SpecAnswers == InitAnswers /\ [][NextTools]_vars

\* ---------------------------------------------------------------- claims

BothActive(a, b) == runStatus[a] \in NonTerminal /\ runStatus[b] \in NonTerminal

\* C1: when an invocation of process_message starts after another one on
\* the thread has returned or failed, the runs of the two are never both in
\* queued, in_progress or requires_action.
C1_SequentialRunsNeverBothActive ==
    \A a, b \in Tasks : a \in prior[b] => ~BothActive(a, b)

IdsInOrder(calls) == [i \in 1..Len(calls) |-> calls[i].id]

\* C2: the list handle_tool_calls returns for a batch of N invocations holds
\* N outputs, one for each invocation's id.
C2_OneOutputPerInvocation ==
    \A t \in Tasks :
        (entry[t] = "htc" /\ pc[t] = "done" /\ ~escaped[t]) =>
            /\ Len(tool_outputs[t]) = Len(tool_calls[t])
            /\ OutputIds(tool_outputs[t]) = CallIds(tool_calls[t])

\* C3: when create_campaign has returned, the campaign it created is the one
\* active campaign.
C3_ReturnLeavesOnlyNewCampaignActive ==
    \A t \in Tasks :
        cc[t].state = "returned" => cc[t].activeAtReturn = {cc[t].camp}

\* C4: the committed campaigns collection never holds two active campaigns.
C4_AtMostOneActiveCampaign == Cardinality(ActiveIds(campaigns)) <= 1

InteractionsOf(camp) ==
    {i \in interactions : i.campaign_id = Str(ObjectId(camp))}

\* C5: a send that fails does not end the loop of create_campaign: every
\* recipient up to the loop's position was attempted, and when the call has
\* returned every recipient was attempted and the campaign's interactions are
\* one initial/sent interaction per recipient whose send did not fail (K - 1
\* of them after one failure), none for a recipient whose send failed.
C5_SendFailureIsolated ==
    \A t \in Tasks :
        /\ cc[t].state = "running" /\ pc[t] = "cc_loop" =>
              cc[t].attempted = [i \in 1..(cc[t].sidx - 1) |-> i]
        /\ cc[t].state = "returned" =>
              /\ cc[t].attempted = [i \in 1..NumStudents |-> i]
              /\ Cardinality(InteractionsOf(cc[t].camp))
                    = NumStudents - Cardinality(cc[t].failed)
              /\ \A i \in InteractionsOf(cc[t].camp) :
                    /\ i.type = "initial"
                    /\ i.status = "sent"
                    /\ i.student_id \notin {Str(ObjectId(s)) : s \in cc[t].failed}

C5_Witness ==
    \E t \in Tasks :
        /\ cc[t].state = "returned"
        /\ Cardinality(cc[t].failed) = 1
        /\ Cardinality(InteractionsOf(cc[t].camp)) = NumStudents - 1

\* C6: two runs started by process_message on the thread are never both in
\* queued, in_progress or requires_action.
C6_NoTwoRunsActive ==
    \A a, b \in Tasks : a # b => ~BothActive(a, b)

\* C7: once a poll has observed failed, cancelled or expired, the invocation
\* has failed with the error that carries that status, and when the run never
\* paused in requires_action the handler was not called.
C7_AbnormalEndRaises ==
    \A t \in Tasks :
        observed[t] \in AbnormalEnd =>
            /\ pc[t] = "done"
            /\ result[t].kind = "error"
            /\ result[t].error = "Run failed with status"
            /\ result[t].status = observed[t]
            /\ pauses[t] = 0 => handlerCalls[t] = 0

C7_Witness ==
    \E t \in Tasks :
        /\ observed[t] = "expired"
        /\ result[t].status = "expired"
        /\ pauses[t] = 0

\* C8: after the fetch that follows a poll observing completed, the invocation
\* has returned the text value of the first content part of the thread's most
\* recent message, or has failed with a malformed-response error and no value
\* when there is no message, no content part, or no text value in the first part.
C8_CompletedReturnsLatestText ==
    \A t \in Tasks :
        /\ result[t].kind = "ok" => fetched[t].done
        /\ fetched[t].done =>
              /\ observed[t] = "completed"
              /\ pc[t] = "done"
              /\ LET msgs == fetched[t].msgs IN
                 IF msgs = <<>>
                 THEN /\ result[t].kind = "error"
                      /\ result[t].error = "Invalid message response"
                      /\ result[t].value = NoneValue
                 ELSE LET content == msgs[Len(msgs)].content IN
                      IF \/ content = <<>>
                         \/ content[1].type # "text"
                         \/ content[1].value = EmptyStr
                      THEN /\ result[t].kind = "error"
                           /\ result[t].error = "Invalid message content"
                           /\ result[t].value = NoneValue
                      ELSE /\ result[t].kind = "ok"
                           /\ result[t].value = content[1].value

C8_Witness ==
    \E t \in Tasks :
        /\ fetched[t].done
        /\ result[t].kind = "ok"
        /\ Len(fetched[t].msgs[Len(fetched[t].msgs)].content) = 2

\* C9: an invocation without a run handler whose poll has observed
\* requires_action has failed at that poll with the unsupported error: it has
\* not polled again, called no handler and submitted no tool outputs.
C9_NoHandlerFailsAtPause ==
    \A t \in Tasks :
        (~hasHandler[t] /\ observed[t] = "requires_action") =>
            /\ pc[t] = "done"
            /\ result[t].kind = "error"
            /\ result[t].error = "Function execution not supported"
            /\ handlerCalls[t] = 0
            /\ submits[t] = <<>>

C9_Witness ==
    \E t \in Tasks : ~hasHandler[t] /\ observed[t] = "requires_action"

Unparsable(call) == call.arguments = "{not json"
MissingArgument(call) ==
    call.arguments = "{}" /\ call.name \in {"run_campaign", "query_student_chats"}

ErrorOutputsFor(t, id) ==
    {k \in 1..Len(tool_outputs[t]) :
        tool_outputs[t][k].tool_call_id = id /\ tool_outputs[t][k].output.kind = "error"}

\* C10: no exception leaves handle_tool_calls; an invocation whose payload
\* does not parse, whose argument is missing, or whose campaign or search call
\* raised has an error output under its own id; and when the function has
\* returned, every invocation of the batch was dispatched, in order.
C10_DispatcherNeverRaises ==
    \A t \in Tasks :
        /\ ~escaped[t]
        /\ (entry[t] = "htc" /\ pc[t] = "done") =>
              dispatched[t] = IdsInOrder(tool_calls[t])
        /\ \A i \in 1..Len(tool_calls[t]) :
              (/\ i < idx[t]
               /\ \/ Unparsable(tool_calls[t][i])
                  \/ MissingArgument(tool_calls[t][i])
                  \/ tool_calls[t][i].id \in serviceRaised[t]) =>
                    Cardinality(ErrorOutputsFor(t, tool_calls[t][i].id)) = 1

C10_Witness ==
    \E t \in Tasks :
        /\ pc[t] = "done"
        /\ Len(tool_calls[t]) = 2
        /\ Unparsable(tool_calls[t][1])
        /\ Len(tool_outputs[t]) = 2
        /\ tool_outputs[t][2].output.kind = "success"

KnownFunctions == {"run_campaign", "query_student_chats"}

\* C11: every invocation handle_tool_calls has gone past whose payload parses
\* and whose function name is neither run_campaign nor query_student_chats
\* has an output under its id that is an error with the "unsupported
\* function" payload.
C11_UnknownFunctionGetsErrorOutput ==
    \A t \in Tasks :
        \A i \in 1..Len(tool_calls[t]) :
            (/\ i < idx[t]
             /\ tool_calls[t][i].name \notin KnownFunctions
             /\ json_loads(tool_calls[t][i].arguments).ok) =>
                \E k \in 1..Len(tool_outputs[t]) :
                    /\ tool_outputs[t][k].tool_call_id = tool_calls[t][i].id
                    /\ tool_outputs[t][k].output.kind = "error"
                    /\ tool_outputs[t][k].output.text = "unsupported function"

\* C12: the committed store shows the writes of a create_campaign call all
\* together or not at all. Every interaction belongs to a committed campaign;
\* while the call's transaction is open, and after the call has raised, its
\* campaign and interactions are absent (and, while it is open, the campaigns
\* it deactivates are still active); once the call has returned, its campaign,
\* all the interactions it recorded and its deactivations are present.
C12_CampaignWritesAllOrNothing ==
    /\ \A i \in interactions :
          \E c \in DOMAIN campaigns : i.campaign_id = Str(ObjectId(c))
    /\ \A t \in Tasks :
          /\ (txn[t].open \/ cc[t].state = "raised") =>
                /\ cc[t].camp \notin DOMAIN campaigns
                /\ InteractionsOf(cc[t].camp) = {}
          /\ txn[t].open => \A d \in txn[t].deact : campaigns[d].status = "active"
          /\ cc[t].state = "returned" =>
                /\ cc[t].camp \in DOMAIN campaigns
                /\ InteractionsOf(cc[t].camp)
                      = {Interaction(cc[t].camp, s, cc[t].desc) : s \in cc[t].recorded}
                /\ \A d \in cc[t].deact : campaigns[d].status = "inactive"

C12_Witness ==
    \E t \in Tasks :
        /\ cc[t].state = "returned"
        /\ cc[t].deact # {}
        /\ cc[t].recorded # {}
        /\ Cardinality(DOMAIN campaigns) = 2

\* The exchange of request t is in the committed chat history.
Appended(t) ==
    \E d \in 1..Len(chat_histories) :
        \E k \in 1..Len(chat_histories[d].messages) :
            chat_histories[d].messages[k] = [role |-> "user", content |-> UserText(t)]

\* C13: the committed store holds the messages of an exchange in the thread's
\* chat history exactly when the thread's last_message / last_activity were
\* set for that exchange.
C13_AppendAndActivityTogether ==
    \A t \in Tasks : Appended(t) <=> t \in threads.setBy

\* The same, for a thread that has a threads document.
AppendAndActivityTogetherWithDocument ==
    threads.exists => C13_AppendAndActivityTogether

\* C14: an invocation of process_message has created at most one user
\* message and at most one run on the thread; once it is past the creation of
\* the message it has created exactly one message, once it polls exactly one
\* run, and after a poll that observed failed, cancelled or expired it still
\* has created one run only.
C14_OneMessageOneRun ==
    \A t \in Tasks :
        /\ requests[t].messages <= 1
        /\ requests[t].runs <= 1
        /\ pc[t] \in {"pm_run", "pm_poll", "pm_fetch", "pm_submit"} =>
              requests[t].messages = 1
        /\ requests[t].polled => (requests[t].messages = 1 /\ requests[t].runs = 1)
        /\ observed[t] \in AbnormalEnd => (requests[t].runs = 1 /\ pc[t] = "done")

C14_Witness ==
    \E t \in Tasks :
        /\ observed[t] = "failed"
        /\ pc[t] = "done"
        /\ requests[t].runs = 1
        /\ requests[t].messages = 1

\* The results a direct call returned are in order of non-increasing score.
ResultsByScore ==
    \A k \in 1..(Len(search.results) - 1) :
        Score(search.results[k].message, search.query)
            >= Score(search.results[k + 1].message, search.query)

\* C15 (as stated): a call query_student_chats(query, limit=L) that has
\* returned has returned at most L results, in order of non-increasing score.
C15_AtMostLimitByScore ==
    search.state = "returned" =>
        (Len(search.results) <= search.limit /\ ResultsByScore)

\* C15 (amended): the same for L >= 1; with L = 0 the store applies no limit
\* and the results, all the hits, are still in order of non-increasing score.
C15_PositiveLimitByScore ==
    search.state = "returned" =>
        /\ ResultsByScore
        /\ search.limit >= 1 => Len(search.results) <= search.limit
        /\ search.limit = 0 =>
              Len(search.results) = Cardinality(SearchHits(search.query))

C15_Witness ==
    /\ search.state = "returned"
    /\ search.limit = 2
    /\ Len(search.results) = 2
    /\ Cardinality(SearchHits(search.query)) = 3
    /\ Score(search.results[1].message, search.query)
          > Score(search.results[2].message, search.query)

\* C16: when an invocation of process_message creates its user message, or
\* its run, every other run of the thread that is then queued or in_progress
\* has been issued a cancel request by that invocation.
C16_StaleRunsCancelledFirst ==
    [][\A t \in Tasks :
          (\/ requests'[t].messages > requests[t].messages
           \/ requests'[t].runs > requests[t].runs) =>
              \A r \in Tasks \ {t} :
                  runStatus[r] \in {"queued", "in_progress"} =>
                      r \in requests[t].cancels]_vars

\* C17: every submit_tool_outputs request of an invocation names the
\* invocation's own run and holds an output for every tool invocation that
\* was pending on the run.
C17_SubmissionCoversBatch ==
    \A t \in Tasks :
        \A k \in 1..Len(submits[t]) :
            /\ submits[t][k].run = t
            /\ CallIds(submits[t][k].pending) \subseteq OutputIds(submits[t][k].outputs)

\* C18: over one invocation of process_message no tool invocation is
\* dispatched twice, and every invocation that was pending at a submission
\* was dispatched.
C18_DispatchedExactlyOnce ==
    \A t \in Tasks :
        entry[t] = "pm" =>
            /\ \A i, j \in 1..Len(dispatched[t]) :
                  dispatched[t][i] = dispatched[t][j] => i = j
            /\ \A k \in 1..Len(submits[t]) :
                  CallIds(submits[t][k].pending)
                      \subseteq {dispatched[t][i] : i \in 1..Len(dispatched[t])}

\* The order of the remote calls in one step of invocation t.
CallsInOrder(t) ==
    \* the run is started after the user message was created
    /\ requests'[t].runs > requests[t].runs => requests[t].messages = 1
    \* a poll is made after the run was started
    /\ (pc[t] = "pm_poll" /\ observed'[t] # observed[t]) => requests[t].runs = 1
    /\ (requests'[t].polled /\ ~requests[t].polled) => requests[t].runs = 1
    \* outputs are submitted after the handler has returned them
    /\ Len(submits'[t]) > Len(submits[t]) =>
          /\ idx[t] > Len(tool_calls[t])
          /\ submits'[t][Len(submits'[t])].outputs = tool_outputs[t]
          /\ handlerCalls[t] >= Len(submits'[t])
          \* and the invocation then polls again, unless the request failed
          /\ \/ pc'[t] = "pm_poll"
             \/ result'[t].kind = "error"
    \* the handler is called on a poll that observed requires_action
    /\ handlerCalls'[t] > handlerCalls[t] => observed'[t] = "requires_action"
    \* the final message is fetched after a poll observed completed
    /\ (fetched'[t].done /\ ~fetched[t].done) => observed[t] = "completed"
    /\ (result'[t].kind = "ok" /\ result[t].kind # "ok") =>
          (fetched'[t].done /\ ~fetched[t].done)

\* C19: in one invocation of process_message the user message is created
\* before the run is started, the run is started before the first poll, the
\* handler has returned before its outputs are submitted, a submission is
\* followed by another poll and not by a return, and the final message is
\* fetched only after a poll observed completed.
C19_RemoteCallsInOrder == [][\A t \in Tasks : CallsInOrder(t)]_vars

C19_Witness ==
    \E t \in Tasks :
        /\ Len(submits[t]) = 1
        /\ handlerCalls[t] = 1
        /\ fetched[t].done
        /\ result[t].kind = "ok"

Ended == AbnormalEnd \cup {"completed"}

\* C20: with fair scheduling, once the run of the invocation is completed,
\* failed, cancelled or expired the invocation returns or fails; and while the
\* run is queued, in_progress or in a status process_message has no branch
\* for, a poll leaves the invocation polling: it leaves the loop only when a
\* request fails.
C20_ReturnsWhenRunEnds ==
    /\ (runStatus[Requester] \in Ended) ~> (pc[Requester] = "done")
    /\ [][\A t \in Tasks :
            (/\ pc[t] = "pm_poll"
             /\ runStatus[t] \in {"queued", "in_progress"} \cup OtherStatuses
             /\ pc'[t] # "pm_poll") =>
                (pc'[t] = "done" /\ result'[t].error = "request failed")]_vars

C20_Witness ==
    \E t \in Tasks :
        /\ pc[t] = "pm_poll"
        /\ observed[t] = "cancelling"
        /\ runStatus[t] = "cancelled"
        /\ pauses[t] = 1

\* C21: when a create_campaign call fails (while deactivating, inserting the
\* campaign, loading the recipients or committing), it raises HTTPException,
\* which becomes the invocation's error output, and the committed store is as
\* it was: no step of the failing call changed campaigns or interactions, the
\* campaigns it was deactivating are still active, and neither its campaign
\* nor an interaction of it exists.
C21_FailureLeavesStoreUnchanged ==
    [][\A t \in Tasks :
          /\ (cc[t].state = "running" /\ cc'[t].state = "running") =>
                (campaigns' = campaigns /\ interactions' = interactions)
          /\ (cc[t].state = "running" /\ cc'[t].state = "raised") =>
                /\ campaigns' = campaigns
                /\ interactions' = interactions
                /\ \A d \in cc[t].deact : campaigns'[d].status = "active"
                /\ cc[t].camp \notin DOMAIN campaigns'
                /\ {i \in interactions' : i.campaign_id = Str(ObjectId(cc[t].camp))} = {}
                /\ CurrentCall(t).id \in serviceRaised'[t]
                /\ tool_outputs'[t] =
                      Append(tool_outputs[t],
                             Output(CurrentCall(t).id, "error", "HTTPException"))]_vars

C21_Witness ==
    \E t \in Tasks :
        /\ cc[t].state = "raised"
        /\ cc[t].cause = "store"
        /\ cc[t].sidx > NumStudents
        /\ cc[t].deact # {}
        /\ ActiveIds(campaigns) = cc[t].deact
        /\ \E s \in Students : <<cc[t].camp, s>> \in sent

\* The recipients the messaging provider accepted a send of the campaign for.
SentTo(camp) == {s \in Students : <<camp, s>> \in sent}

NoRepeats(seq) == \A i, j \in 1..Len(seq) : seq[i] = seq[j] => i = j

\* C22: in a create_campaign call no recipient is attempted twice and a
\* recipient whose send failed was not sent to; an interaction is written,
\* in the transaction or in the committed store, only for a recipient whose
\* send was accepted, so a campaign never has more recorded interactions than
\* accepted sends. (That sends without a committed campaign or interaction
\* are reachable is the witness.)
C22_RecordedOnlyAfterSend ==
    /\ \A t \in Tasks :
          /\ NoRepeats(cc[t].attempted)
          /\ cc[t].failed \cap SentTo(cc[t].camp) = {}
          /\ txn[t].inter \subseteq SentTo(txn[t].camp)
          /\ cc[t].recorded \subseteq SentTo(cc[t].camp)
    /\ \A i \in interactions :
          \E p \in sent : /\ i.campaign_id = Str(ObjectId(p[1]))
                          /\ i.student_id = Str(ObjectId(p[2]))
    /\ \A c \in 1..(nextId - 1) :
          Cardinality(InteractionsOf(c)) <= Cardinality(SentTo(c))

C22_Witness ==
    \E t \in Tasks :
        /\ cc[t].state = "raised"
        /\ SentTo(cc[t].camp) = Students
        /\ campaigns = <<>>
        /\ interactions = {}

\* An interaction as create_campaign records it, of a campaign and a
\* recipient that exist.
RecordedByCreateCampaign(i) ==
    \E c \in DOMAIN campaigns, s \in Students :
        i = Interaction(c, s, campaigns[c].description)

RecipientOf(i) == CHOOSE s \in Students : i.student_id = Str(ObjectId(s))
CampaignOf(i) == CHOOSE c \in DOMAIN campaigns : i.campaign_id = Str(ObjectId(c))

\* C23: when a call of query_student_chats ends whose index and search did
\* not fail and whose limit cuts off no hit, every hit that create_campaign
\* recorded, for a campaign and a recipient that exist, is in the returned
\* results with that recipient's name and that campaign's description (not
\* the sentinel 'Unknown Campaign').
C23_HitsCarryNameAndDescription ==
    [][(/\ search.state = "called"
        /\ search'.state # "called"
        /\ search'.cause # "OperationFailure"
        /\ (search.limit = 0 \/ Cardinality(SearchHits(search.query)) <= search.limit)) =>
            \A h \in SearchHits(search.query) :
                RecordedByCreateCampaign(h) =>
                    /\ search'.state = "returned"
                    /\ \E k \in 1..Len(search'.results) :
                          /\ search'.results[k].message = h.message
                          /\ search'.results[k].student_name = <<"name", RecipientOf(h)>>
                          /\ search'.results[k].campaign_description
                                = campaigns[CampaignOf(h)].description]_vars

\* The invocation asks for run_campaign with a campaign_description.
CampaignRequest(call) == Dispatch(call).act = "create_campaign"

OutputsFor(t, id) ==
    {k \in 1..Len(tool_outputs[t]) : tool_outputs[t][k].tool_call_id = id}

\* C24: while handle_tool_calls runs create_campaign for an invocation, the
\* call's description is the invocation's campaign_description and its
\* transaction's campaign is the calling admin's; an invocation it has gone
\* past has one output under its id: when create_campaign raised, the error
\* output of that failure (and no success output), and otherwise the success
\* acknowledgment with the description, a campaign with that description and
\* admin being committed.
C24_RunCampaignOutput ==
    \A t \in Tasks :
        /\ pc[t] \in CampaignSites =>
              /\ CampaignRequest(CurrentCall(t))
              /\ cc[t].desc = json_loads(CurrentCall(t).arguments).obj["campaign_description"]
        /\ \A i \in 1..Len(tool_calls[t]) :
              (i < idx[t] /\ CampaignRequest(tool_calls[t][i])) =>
                 LET call == tool_calls[t][i]
                     desc == json_loads(call.arguments).obj["campaign_description"]
                 IN /\ Cardinality(OutputsFor(t, call.id)) = 1
                    /\ \A k \in OutputsFor(t, call.id) :
                          IF call.id \in serviceRaised[t]
                          THEN tool_outputs[t][k].output
                                  = [kind |-> "error", text |-> "HTTPException"]
                          ELSE /\ tool_outputs[t][k].output
                                     = [kind |-> "success",
                                        text |-> <<"Campaign started successfully with description: ",
                                                   desc>>]
                               /\ \E c \in DOMAIN campaigns :
                                     /\ campaigns[c].description = desc
                                     /\ campaigns[c].admin_id = "admin"

C24_Witness ==
    \E t \in Tasks :
        /\ Len(tool_calls[t]) = 2
        /\ idx[t] = 3
        /\ CampaignRequest(tool_calls[t][1])
        /\ CampaignRequest(tool_calls[t][2])
        /\ tool_calls[t][1].id \notin serviceRaised[t]
        /\ tool_calls[t][2].id \in serviceRaised[t]
        /\ tool_outputs[t][1].output.kind = "success"
        /\ tool_outputs[t][2].output.kind = "error"

\* The invocation asks for query_student_chats with a query.
SearchRequest(call) == Dispatch(call).act = "query_student_chats"

\* C25: a query_student_chats invocation handle_tool_calls has gone past,
\* whose call of the search service did not raise, has one output under its
\* id, and that output is the result list, not an error payload.
C25_QueryOutputIsResultList ==
    \A t \in Tasks :
        \A i \in 1..Len(tool_calls[t]) :
            (/\ i < idx[t]
             /\ SearchRequest(tool_calls[t][i])
             /\ tool_calls[t][i].id \notin serviceRaised[t]) =>
                /\ Cardinality(OutputsFor(t, tool_calls[t][i].id)) = 1
                /\ \A k \in OutputsFor(t, tool_calls[t][i].id) :
                      tool_outputs[t][k].output.kind = "results"

\* C26: the reply an invocation of process_message returns is the text of a
\* message the invocation's own run produced: not a user message and not
\* the reply of another invocation's run.
C26_ReplyIsOwnRunsMessage ==
    \A t \in Tasks :
        result[t].kind = "ok" => result[t].value = ReplyText(t)

\* The committed message list is made of exchanges: a user message followed
\* at once by the assistant message create_message built with it.
CompleteExchanges(messages) ==
    /\ Len(messages) % 2 = 0
    /\ \A j \in 1..(Len(messages) \div 2) :
          \E t \in Tasks :
              /\ messages[2 * j - 1] = [role |-> "user", content |-> UserText(t)]
              /\ messages[2 * j] = [role |-> "assistant", content |-> result[t].value]

\* C27: every committed chat history document of the thread is always a
\* sequence of complete exchanges (even length, user then assistant, the two
\* messages of an exchange adjacent), also with concurrent create_message
\* requests, and a step only appends: no document is removed and the messages
\* a document held stay, unchanged and in place.
C27_HistoryAppendOnlyExchanges ==
    /\ [](\A d \in 1..Len(chat_histories) :
             /\ chat_histories[d].messages # <<>>
             /\ CompleteExchanges(chat_histories[d].messages))
    /\ [][/\ Len(chat_histories') >= Len(chat_histories)
          /\ \A d \in 1..Len(chat_histories) :
                /\ Len(chat_histories'[d].messages) >= Len(chat_histories[d].messages)
                /\ SubSeq(chat_histories'[d].messages, 1, Len(chat_histories[d].messages))
                      = chat_histories[d].messages]_vars

C27_Witness ==
    /\ Len(chat_histories) = 1
    /\ Len(chat_histories[1].messages) = 4
    /\ chat_histories[1].messages[1].content # chat_histories[1].messages[3].content
    /\ \A t \in Tasks : cm[t].state \in {"committed", "failed", "none"}

\* The request's exchange is nowhere in the committed store.
StoreWithout(t) ==
    /\ cm[t].state = "none"
    /\ ~Appended(t)
    /\ t \notin threads.setBy
    /\ threads.last_message # UserText(t)

OnThread(t) == \E k \in 1..Len(threadMsgs) : threadMsgs[k] = UserMessage(t)

\* C28 (as stated): a request whose process_message has failed leaves the
\* committed chat history and threads document as they were (the step at
\* which it fails writes neither, and its exchange is never stored), and its
\* user message is on the remote thread.
C28_FailureLeavesStoreButNotThread ==
    /\ [](\A t \in Tasks :
             (entry[t] = "cm" /\ result[t].kind = "error") =>
                 (StoreWithout(t) /\ OnThread(t)))
    /\ [][\A t \in Tasks :
             (result[t].kind # "error" /\ result'[t].kind = "error") =>
                 (chat_histories' = chat_histories /\ threads' = threads)]_vars

\* C28 (amended): the same, the user message being on the remote thread
\* when the failure came after the request that creates it: after every
\* failure but that of the message creation itself.
C28_FailureAfterMessageLeavesStore ==
    /\ [](\A t \in Tasks :
             (entry[t] = "cm" /\ result[t].kind = "error") =>
                 /\ StoreWithout(t)
                 /\ (result[t].error # "request failed" \/ requests[t].messages = 1)
                        => OnThread(t)
                 /\ requests[t].messages = 0 => ~OnThread(t))
    /\ [][\A t \in Tasks :
             (result[t].kind # "error" /\ result'[t].kind = "error") =>
                 (chat_histories' = chat_histories /\ threads' = threads)]_vars

C28_Witness ==
    \E t \in Tasks :
        /\ result[t].kind = "error"
        /\ result[t].error = "Invalid message content"
        /\ OnThread(t)
        /\ chat_histories # <<>>
        /\ threads.setBy # {}
        /\ StoreWithout(t)

====
